---- MODULE Spec2Model ----
(***************************************************************************)
(* The post store of go-tiny-blog (src/main.go): posts serialised with     *)
(* encoding/json and kept in a bolt file under BLOG/POSTS, read and        *)
(* written by concurrent request goroutines through db.View / db.Update.   *)
(***************************************************************************)
EXTENDS Integers, Sequences, FiniteSets, TLC

(***************************************************************************)
(* Bounds of the model.                                                    *)
(***************************************************************************)
\* store calls started in one behaviour
MaxOps == 3
\* requests the handlers take in one behaviour
MaxRequests == 2

(***************************************************************************)
(* Strings.  A Go string is a byte sequence; the model writes it as a      *)
(* sequence of units: an ASCII byte, a byte that is no valid UTF-8         *)
(* (InvalidByte), or the rune U+FFFD (RuneError, three bytes in UTF-8).    *)
(***************************************************************************)
InvalidByte == 255
RuneError == 65533

RECURSIVE Utf8Bytes(_)
Utf8Bytes(s) ==
    IF s = <<>> THEN <<>>
    ELSE (IF Head(s) = RuneError THEN <<239, 191, 189>> ELSE <<Head(s)>>)
         \o Utf8Bytes(Tail(s))

\* bytes.Compare, as bolt orders the keys of a bucket: -1, 0 or 1
RECURSIVE CompareBytes(_, _)
CompareBytes(a, b) ==
    IF a = <<>> THEN (IF b = <<>> THEN 0 ELSE -1)
    ELSE IF b = <<>> THEN 1
    ELSE IF Head(a) < Head(b) THEN -1
    ELSE IF Head(a) > Head(b) THEN 1
    ELSE CompareBytes(Tail(a), Tail(b))

KeyCompare(a, b) == CompareBytes(Utf8Bytes(a), Utf8Bytes(b))

ValidUTF8(s) == \A i \in 1..Len(s) : s[i] # InvalidByte

(***************************************************************************)
(* Post and time.Time.  A time is its wall-clock instant (year and the     *)
(* rest, nsec) and whether it carries a monotonic clock reading, as the    *)
(* value of time.Now() does.                                               *)
(***************************************************************************)
GoTime(y, n, m) == [year |-> y, nsec |-> n, mono |-> m]
ZeroTime == GoTime(1, 0, FALSE)

\* time.Time.Equal: the same instant, whatever the monotonic reading
TimeEqual(t, u) == t.year = u.year /\ t.nsec = u.nsec

Post(author, body, date, title, slug) ==
    [Author |-> author, Body |-> body, DatePosted |-> date,
     Title |-> title, Slug |-> slug]

\* Post{}
ZeroPost == Post(<<>>, <<>>, ZeroTime, <<>>, <<>>)

\* two posts equal in every field, the timestamps as instants
PostEqual(p, q) ==
    /\ p.Author = q.Author
    /\ p.Body = q.Body
    /\ TimeEqual(p.DatePosted, q.DatePosted)
    /\ p.Title = q.Title
    /\ p.Slug = q.Slug

PostValidUTF8(p) ==
    ValidUTF8(p.Author) /\ ValidUTF8(p.Body) /\ ValidUTF8(p.Title) /\ ValidUTF8(p.Slug)

(***************************************************************************)
(* encoding/json.  A stored value is a document: an object with its        *)
(* members in order, zero bytes ("empty"), or bytes that are no JSON       *)
(* ("invalid").  A member holds its name and its text as sequences of      *)
(* units.                                                                  *)
(***************************************************************************)
\* the json tags of Post: "author", "body", "datePosted", "title", "slug"
TagAuthor == <<97, 117, 116, 104, 111, 114>>
TagBody == <<98, 111, 100, 121>>
TagDatePosted == <<100, 97, 116, 101, 80, 111, 115, 116, 101, 100>>
TagTitle == <<116, 105, 116, 108, 101>>
TagSlug == <<115, 108, 117, 103>>

\* the letters json takes for one another in a name: the two cases of an ASCII
\* letter, the Kelvin sign (U+212A) for "k" and the long s (U+017F) for "s"
FoldUnit(u) ==
    IF u >= 65 /\ u <= 90 THEN u + 32
    ELSE IF u = 8490 THEN 107
    ELSE IF u = 383 THEN 115
    ELSE u

\* a member's name names the field with this tag: exactly, or letter case aside
EqualFold(name, tag) ==
    /\ Len(name) = Len(tag)
    /\ \A i \in 1..Len(tag) : FoldUnit(name[i]) = FoldUnit(tag[i])

Member(name, text) == [name |-> name, text |-> text]
JSONObject(members) == [kind |-> "object", members |-> members]
EmptyBytes == [kind |-> "empty", members |-> <<>>]
InvalidBytes == [kind |-> "invalid", members |-> <<>>]
\* the nil slice bolt's Get returns for a key that is not there
NilValue == [kind |-> "nil", members |-> <<>>]

\* a JSON string is valid UTF-8: every invalid byte is written as the
\* escape of U+FFFD
CoerceUTF8(s) == [i \in 1..Len(s) |-> IF s[i] = InvalidByte THEN RuneError ELSE s[i]]

\* a string field tagged omitempty
StringMember(name, s) ==
    IF s = <<>> THEN <<>> ELSE <<Member(name, CoerceUTF8(s))>>

\* a variant: RFC3339, which has no fraction of a second
TimeTextSeconds(t) == <<t.year, 0>>

\* time.Time.MarshalJSON: RFC3339Nano of the wall clock
TimeText(t) == <<t.year, t.nsec>>
TimeMember(name, t) == <<Member(name, TimeText(t))>>
TimeYearOK(t) == t.year >= 0 /\ t.year <= 9999

NoError == "nil"
ErrYearRange == "Time.MarshalJSON: year outside of range [0,9999]"
ErrUnexpectedEnd == "unexpected end of JSON input"
ErrInvalidChar == "invalid character looking for beginning of value"

\* json.Marshal(post)
Marshal(post) ==
    IF ~TimeYearOK(post.DatePosted)
    THEN [err |-> ErrYearRange, buf |-> NilValue]
    ELSE [err |-> NoError,
          buf |-> JSONObject(StringMember(TagAuthor, post.Author)
                             \o StringMember(TagBody, post.Body)
                             \o TimeMember(TagDatePosted, post.DatePosted)
                             \o StringMember(TagTitle, post.Title)
                             \o StringMember(TagSlug, post.Slug))]

\* one member of an object decoded into the struct: into the field whose tag
\* its name spells, letter case aside; other names are skipped
SetField(p, m) ==
    IF EqualFold(m.name, TagAuthor) THEN [p EXCEPT !.Author = m.text]
    ELSE IF EqualFold(m.name, TagBody) THEN [p EXCEPT !.Body = m.text]
    ELSE IF EqualFold(m.name, TagDatePosted)
         THEN [p EXCEPT !.DatePosted = GoTime(m.text[1], m.text[2], FALSE)]
    ELSE IF EqualFold(m.name, TagTitle) THEN [p EXCEPT !.Title = m.text]
    ELSE IF EqualFold(m.name, TagSlug) THEN [p EXCEPT !.Slug = m.text]
    ELSE p

RECURSIVE SetFields(_, _)
SetFields(p, members) ==
    IF members = <<>> THEN p
    ELSE SetFields(SetField(p, Head(members)), Tail(members))

\* json.Unmarshal(v, &into): members present in v overwrite into's fields, the
\* others keep what into held
Unmarshal(v, into) ==
    IF v.kind = "object" THEN [err |-> NoError, post |-> SetFields(into, v.members)]
    ELSE IF v.kind = "invalid" THEN [err |-> ErrInvalidChar, post |-> into]
    ELSE [err |-> ErrUnexpectedEnd, post |-> into]

(***************************************************************************)
(* bolt.  A bucket is its key/value pairs in ascending byte order of the   *)
(* key.  The file holds the root bucket BLOG and in it POSTS, which is     *)
(* absent, a bucket, or a plain value (a file some other program wrote).   *)
(***************************************************************************)
ErrKeyRequired == "key required"
ErrIncompatibleValue == "incompatible value"

\* Cursor.seek: the index of the first pair whose key is >= k, Len + 1 if none
RECURSIVE SeekFrom(_, _, _)
SeekFrom(kv, k, i) ==
    IF i > Len(kv) THEN i
    ELSE IF KeyCompare(kv[i].key, k) >= 0 THEN i
    ELSE SeekFrom(kv, k, i + 1)

Seek(kv, k) == SeekFrom(kv, k, 1)

HasKey(kv, k) ==
    LET i == Seek(kv, k) IN i <= Len(kv) /\ KeyCompare(kv[i].key, k) = 0

\* Bucket.Get: nil for a key that is not there
BucketGet(kv, k) ==
    IF HasKey(kv, k) THEN kv[Seek(kv, k)].value ELSE NilValue

\* a variant: the pair is inserted and a pair already under the key stays
BucketPutInsert(kv, k, v) ==
    LET i == Seek(kv, k) IN
    IF Len(k) = 0 THEN [err |-> ErrKeyRequired, kv |-> kv]
    ELSE [err |-> NoError,
          kv |-> SubSeq(kv, 1, i - 1) \o <<[key |-> k, value |-> v]>>
                 \o SubSeq(kv, i, Len(kv))]

\* Bucket.Put
BucketPut(kv, k, v) ==
    LET i == Seek(kv, k) IN
    IF Len(k) = 0 THEN [err |-> ErrKeyRequired, kv |-> kv]
    ELSE IF HasKey(kv, k)
         THEN [err |-> NoError, kv |-> [kv EXCEPT ![i] = [key |-> k, value |-> v]]]
    ELSE [err |-> NoError,
          kv |-> SubSeq(kv, 1, i - 1) \o <<[key |-> k, value |-> v]>>
                 \o SubSeq(kv, i, Len(kv))]

\* a variant: the pair the cursor stops at is removed, whatever its key
BucketDeleteAtSeek(kv, k) ==
    LET i == Seek(kv, k) IN
    [err |-> NoError, kv |-> SubSeq(kv, 1, i - 1) \o SubSeq(kv, i + 1, Len(kv))]

\* Bucket.Delete: no error for a key that is not there
BucketDelete(kv, k) ==
    LET i == Seek(kv, k) IN
    IF HasKey(kv, k)
    THEN [err |-> NoError, kv |-> SubSeq(kv, 1, i - 1) \o SubSeq(kv, i + 1, Len(kv))]
    ELSE [err |-> NoError, kv |-> kv]

File(exists, blog, posts, kv) ==
    [file |-> exists, blog |-> blog, posts |-> posts, kv |-> kv]

\* tx.Bucket("BLOG").Bucket("POSTS") is a bucket (else a nil dereference)
HasPostsBucket(root) == root.blog /\ root.posts = "bucket"

(***************************************************************************)
(* Inputs.  The slugs "", "ab" and "b"; posts that are full, partly        *)
(* empty, hold a byte that is no UTF-8, or a year json cannot write.       *)
(***************************************************************************)
Goroutines == {1, 2}

SlugEmpty == <<>>
SlugAB == <<97, 98>>
SlugB == <<98>>
Slugs == {SlugEmpty, SlugAB, SlugB}

PostFull == Post(<<97>>, <<98>>, GoTime(2020, 1, TRUE), <<97>>, SlugAB)
PostTitleOnly == Post(<<>>, <<>>, GoTime(2020, 2, FALSE), <<98>>, <<>>)
PostBadUTF8 == Post(<<>>, <<InvalidByte>>, ZeroTime, <<>>, <<InvalidByte>>)
PostFarYear == Post(<<97>>, <<>>, GoTime(10000, 0, FALSE), <<>>, <<>>)
PostInputs == {PostFull, PostTitleOnly, PostBadUTF8, PostFarYear}

None == <<>>
Some(x) == <<x>>

(***************************************************************************)
(* The clock and the slug of a new post.  The clock readings of the model  *)
(* are in the first minute of a year, in UTC: nsec is the time since the   *)
(* year began, in nanoseconds.  The first two readings are in one second.  *)
(***************************************************************************)
NanosPerSecond == 1000000000

ClockReadings ==
    << GoTime(2020, 1, TRUE),
       GoTime(2020, 2, TRUE),
       GoTime(2020, NanosPerSecond + 1, TRUE) >>

Digits2(n) == <<48 + (n \div 10), 48 + (n % 10)>>
Digits4(n) == Digits2(n \div 100) \o Digits2(n % 100)

\* a variant: the layout without the seconds, which are written as "00"
FormatWholeMinute(t) ==
    Digits4(t.year) \o <<45, 48, 49, 45, 48, 49, 84, 48, 48, 58, 48, 48, 58>>
    \o Digits2(0) \o <<90>>

\* t.Format(time.RFC3339): "2006-01-02T15:04:05Z07:00", whole seconds
FormatRFC3339(t) ==
    Digits4(t.year) \o <<45, 48, 49, 45, 48, 49, 84, 48, 48, 58, 48, 48, 58>>
    \o Digits2(t.nsec \div NanosPerSecond) \o <<90>>

\* slug.Make on one ASCII unit: "&" and "@" are written out, letters are
\* lowercased, and what is no letter, digit, "-" or "_" becomes "-"
MakeUnit(u) ==
    IF u = 38 THEN <<97, 110, 100>>
    ELSE IF u = 64 THEN <<97, 116>>
    ELSE IF u >= 65 /\ u <= 90 THEN <<u + 32>>
    ELSE IF (u >= 97 /\ u <= 122) \/ (u >= 48 /\ u <= 57) \/ u = 45 \/ u = 95
         THEN <<u>>
    ELSE <<45>>

RECURSIVE MakeUnits(_)
MakeUnits(s) ==
    IF s = <<>> THEN <<>> ELSE MakeUnit(Head(s)) \o MakeUnits(Tail(s))

\* "-+" is replaced by "-"
RECURSIVE CollapseDashes(_)
CollapseDashes(s) ==
    IF Len(s) < 2 THEN s
    ELSE IF s[1] = 45 /\ s[2] = 45 THEN CollapseDashes(Tail(s))
    ELSE <<Head(s)>> \o CollapseDashes(Tail(s))

\* strings.Trim(s, "-_")
RECURSIVE TrimLeft(_)
TrimLeft(s) ==
    IF s # <<>> /\ Head(s) \in {45, 95} THEN TrimLeft(Tail(s)) ELSE s

RECURSIVE TrimRight(_)
TrimRight(s) ==
    IF s # <<>> /\ s[Len(s)] \in {45, 95} THEN TrimRight(SubSeq(s, 1, Len(s) - 1)) ELSE s

\* slug.Make, for ASCII text
Make(s) == TrimRight(TrimLeft(CollapseDashes(MakeUnits(s))))

\* createPostHandler's autoSlug
AutoSlug(t, title) == Make(FormatRFC3339(t)) \o <<45>> \o Make(title)

\* the body of a create or modify request: a document with every member (a
\* title "A b", a body with a script element, the caller's own date and
\* slug), one with the same title under names in another letter case, and
\* bytes that are no JSON
TitleAB == <<65, 32, 98>>
ScriptElement == 1000001
BodyScript == <<97, 32, ScriptElement>>
BodyHeading == <<35, 32, 97>>

RequestFull ==
    JSONObject(<< Member(TagAuthor, <<97>>), Member(TagBody, BodyScript),
                  Member(TagDatePosted, <<1999, 5>>), Member(TagTitle, TitleAB),
                  Member(TagSlug, SlugB) >>)
\* its names are spelled "Title" and "BODY", and "titel" names no field
RequestTitle ==
    JSONObject(<< Member(<<84, 105, 116, 108, 101>>, TitleAB),
                  Member(<<66, 79, 68, 89>>, BodyHeading),
                  Member(<<116, 105, 116, 101, 108>>, <<98>>) >>)
\* the create requests, each with the clock reading its handler takes: the two
\* documents at one reading, at two readings of one second and at readings of
\* two seconds, and the bytes that are no JSON
CreateRequests ==
    { [body |-> RequestFull, reading |-> 1],
      [body |-> RequestTitle, reading |-> 1],
      [body |-> RequestTitle, reading |-> 2],
      [body |-> RequestFull, reading |-> 3],
      [body |-> InvalidBytes, reading |-> 1] }

\* the {slug} of a request's path: "b", or the one byte of "/%ff"
SlugFF == <<InvalidByte>>
PathSlugs == {SlugB, SlugFF}

\* the modify requests, each with the clock reading its handler takes: a
\* document for the path slug that is no valid UTF-8, and bytes that are no JSON
\* for the slug of the stored post
ModifyRequests ==
    { [slug |-> SlugFF, body |-> RequestFull, reading |-> 2],
      [slug |-> SlugB, body |-> InvalidBytes, reading |-> 1] }

\* the keys the model can store under
CreatedSlugs ==
    { AutoSlug(ClockReadings[i], title) :
          i \in 1..Len(ClockReadings), title \in {TitleAB, <<>>} }
Keys == Slugs \cup PathSlugs \cup CreatedSlugs

(***************************************************************************)
(* State.                                                                  *)
(***************************************************************************)
VARIABLES
    disk,     \* tinyblog.db as last committed: File(exists, blog, posts, kv)
    db,       \* main's handle: "unset" before setupDB, "open", or "nil"
    phase,    \* main: "start" (before setupDB), "serving", "stopping" (after the
              \* interrupt) or "exited"
    nops,     \* store calls started so far
    writer,   \* db.rwlock: the goroutine in a write transaction, 0 if none
    pc,       \* per goroutine: "idle", "begin", "put", "delete", "commit", "get", "list"
    call,     \* per goroutine: the call's arguments and the marshalled buf
    tx,       \* per goroutine: the root its transaction works on
    list,     \* per goroutine: listPosts' cursor index and results so far
    ret,      \* per goroutine: what its last finished call returned
    obs,      \* per goroutine, history: the store as committed when the call began
    latest,   \* history: per slug, the post of the last write in the file (None: deleted)
    prior,    \* history: per slug, the post the last upsert in the file overwrote
    serial,   \* history: per slug, the value after the writes in the file, in commit order
    http      \* per goroutine: the request its handler serves and the response so far

vars == <<disk, db, phase, nops, writer, pc, call, tx, list, ret, obs,
          latest, prior, serial, http>>

NoFile == File(FALSE, FALSE, "none", <<>>)
NoPage == [html |-> <<>>, text |-> <<>>]
NoRequest == [handler |-> "none", slug |-> <<>>, body |-> NilValue, at |-> ZeroTime,
              key |-> <<>>, status |-> 0, done |-> "none", page |-> NoPage]
NoCall == [op |-> "none", slug |-> <<>>, post |-> ZeroPost, buf |-> NilValue]
NoList == [cur |-> 0, results |-> <<>>]
NoObs == [want |-> None, prior |-> None, all |-> <<>>, began |-> <<>>, overlap |-> FALSE]
NoRet == [op |-> "none", slug |-> <<>>, out |-> "none",
          err |-> NoError, got |-> ZeroPost, posts |-> <<>>, order |-> <<>>,
          obs |-> NoObs]

\* a call's return: out is "ok", "error" (err says which) or "panic"
Return(r, out, err) ==
    [op |-> call[r].op, slug |-> call[r].slug, out |-> out, err |-> err,
     got |-> ZeroPost, posts |-> <<>>, order |-> <<>>,
     obs |-> IF call[r].op = "upsert" THEN [NoObs EXCEPT !.overlap = obs[r].overlap]
             ELSE obs[r]]

\* the values a bucket holds, per slug of the model
ValueOf(kv) == [s \in Slugs |-> BucketGet(kv, s)]

(***************************************************************************)
(* Initial states: the file as a start of the program can find it.         *)
(***************************************************************************)
Pair(k, v) == [key |-> k, value |-> v]

\* files this program leaves behind, or none
OwnFiles ==
    { NoFile,
      File(TRUE, FALSE, "none", <<>>),
      File(TRUE, TRUE, "none", <<>>),
      File(TRUE, TRUE, "bucket", <<>>),
      File(TRUE, TRUE, "bucket", <<Pair(SlugB, Marshal(PostFull).buf)>>) }

\* a post as a modify request to /b left it, and the file of a run that
\* handled that request
PostAtB == Post(<<97>>, BodyScript, GoTime(2019, 7, FALSE), <<98>>, SlugB)
HandlerFiles ==
    { File(TRUE, TRUE, "bucket", <<Pair(SlugB, Marshal(PostAtB).buf)>>) }

\* files with a POSTS that is no bucket, or with values no Post was marshalled to
ForeignFiles ==
    { File(TRUE, TRUE, "value", <<>>),
      File(TRUE, TRUE, "bucket", <<Pair(SlugAB, EmptyBytes)>>),
      File(TRUE, TRUE, "bucket", <<Pair(SlugAB, Marshal(PostFull).buf),
                                   Pair(SlugB, InvalidBytes)>>) }

\* the post a stored value was marshalled from, for the initial files
WrittenFrom(v) ==
    IF v = Marshal(PostFull).buf THEN Some(PostFull)
    ELSE IF v = Marshal(PostAtB).buf THEN Some(PostAtB)
    ELSE None

\* keys: the slugs the history is kept for
InitWith(files, keys) ==
    /\ disk \in files
    /\ db = "unset"
    /\ phase = "start"
    /\ nops = 0
    /\ writer = 0
    /\ pc = [r \in Goroutines |-> "idle"]
    /\ call = [r \in Goroutines |-> NoCall]
    /\ tx = [r \in Goroutines |-> NoFile]
    /\ list = [r \in Goroutines |-> NoList]
    /\ ret = [r \in Goroutines |-> NoRet]
    /\ obs = [r \in Goroutines |-> NoObs]
    /\ latest = [s \in keys |-> WrittenFrom(BucketGet(disk.kv, s))]
    /\ prior = [s \in keys |-> None]
    /\ serial = [s \in keys |-> BucketGet(disk.kv, s)]
    /\ http = [r \in Goroutines |-> NoRequest]

Init == InitWith(OwnFiles, Slugs)
InitForeign == InitWith(OwnFiles \cup ForeignFiles, Slugs)

(***************************************************************************)
(* main and setupDB.                                                       *)
(***************************************************************************)
ErrOpen == "could not open db"
ErrSetUpBuckets == "could not set up buckets"
ErrCommit == "commit failed"
ErrInsert == "could not insert content"
ErrDelete == "could not delete content"
ErrNilPointer == "nil pointer dereference"

\* a variant: only the root bucket is made
CreateRootOnly(root) ==
    [err |-> NoError, root |-> File(TRUE, TRUE, root.posts, root.kv)]

\* the two CreateBucketIfNotExists of setupDB's transaction
CreateBuckets(root) ==
    IF root.posts = "value"
    THEN [err |-> ErrIncompatibleValue, root |-> root]
    ELSE [err |-> NoError, root |-> File(TRUE, TRUE, "bucket", root.kv)]

\* setupDB: bolt.Open, then the buckets in one write transaction.  fault is the
\* environment: "open" (the file cannot be opened), "commit" (the transaction
\* cannot be written), "sync" (the transaction is written and the commit fails
\* all the same) or "none".  main logs an error and goes on.
setupDB(fault) ==
    /\ phase = "start"
    /\ LET opened == [disk EXCEPT !.file = TRUE]
           made == CreateBuckets(opened)
       IN IF fault = "open"
          THEN /\ db' = "nil"
               /\ disk' = disk
          ELSE IF made.err # NoError \/ fault = "commit"
          THEN /\ db' = "nil"
               /\ disk' = opened
          ELSE IF fault = "sync"
          THEN /\ db' = "nil"
               /\ disk' = made.root
          ELSE /\ db' = "open"
               /\ disk' = made.root
    /\ phase' = "serving"
    /\ UNCHANGED <<nops, writer, pc, call, tx, list, ret, obs, latest, prior, serial>>

\* the process ends (its transactions in flight are lost, its lock on the file
\* released) and is started again on the same file
processExit ==
    /\ phase = "serving"
    /\ phase' = "start"
    /\ db' = "unset"
    /\ writer' = 0
    /\ pc' = [r \in Goroutines |-> "idle"]
    /\ call' = [r \in Goroutines |-> NoCall]
    /\ tx' = [r \in Goroutines |-> NoFile]
    /\ list' = [r \in Goroutines |-> NoList]
    /\ ret' = [r \in Goroutines |-> NoRet]
    /\ obs' = [r \in Goroutines |-> NoObs]
    /\ UNCHANGED <<disk, nops, latest, prior, serial>>

(***************************************************************************)
(* Transactions.                                                           *)
(***************************************************************************)
\* goroutine r is in no call and in no handler
Free(r) == pc[r] = "idle" /\ http[r].done # "pending"

\* goroutine r can begin a call: the caller starts a goroutine for it, and which
\* one is of no matter, so it is the first that is free
CanCall(r) ==
    /\ phase = "serving" /\ Free(r) /\ nops < MaxOps
    /\ \A q \in Goroutines : q < r => ~Free(q)

\* a variant: no lock
NoWriterLock == TRUE

\* db.Update takes db.rwlock: one write transaction at a time
WriterLockFree == writer = 0

\* a variant: a read sees the file as it is committed now
LiveRoot(r) == disk

\* the root a transaction of goroutine r reads: the one its Begin took
ReadRoot(r) == tx[r]

\* the pairs of a bucket under one key
OnlyKey(kv, k) == SelectSeq(kv, LAMBDA e : KeyCompare(e.key, k) = 0)

\* history: what was committed when the call began: for listPosts the bucket,
\* for a call on one slug what the bucket held under it
Observe(op, slug) ==
    [want |-> IF op = "list" THEN None ELSE latest[slug],
     prior |-> IF op = "list" THEN None ELSE prior[slug],
     all |-> IF op = "list" THEN latest ELSE <<>>,
     began |-> IF op = "list" THEN disk.kv ELSE OnlyKey(disk.kv, slug),
     overlap |-> FALSE]

ReturnOf(op, slug, out, err) ==
    [op |-> op, slug |-> slug, out |-> out, err |-> err,
     got |-> ZeroPost, posts |-> <<>>, order |-> <<>>, obs |-> NoObs]

\* the call of goroutine r is over and leaves v as its return
Finish(r, v) ==
    /\ pc' = [pc EXCEPT ![r] = "idle"]
    /\ call' = [call EXCEPT ![r] = NoCall]
    /\ tx' = [tx EXCEPT ![r] = NoFile]
    /\ list' = [list EXCEPT ![r] = NoList]
    /\ ret' = [ret EXCEPT ![r] = v]

\* the call of a write: the goroutine is about to enter db.Update
CallUpdate(r, op, slug, post, buf) ==
    /\ pc' = [pc EXCEPT ![r] = "begin"]
    /\ call' = [call EXCEPT ![r] = [op |-> op, slug |-> slug, post |-> post, buf |-> buf]]
    /\ ret' = [ret EXCEPT ![r] = NoRet]
    /\ UNCHANGED <<tx, list, obs>>

\* db.Update's Begin(true): waits for db.rwlock, then takes the root as committed
beginUpdate(r) ==
    /\ pc[r] = "begin"
    /\ IF db = "nil"
       THEN /\ Finish(r, Return(r, "panic", ErrNilPointer))
            /\ obs' = [obs EXCEPT ![r] = NoObs]
            /\ UNCHANGED writer
       ELSE /\ WriterLockFree
            /\ writer' = r
            /\ pc' = [pc EXCEPT ![r] = IF call[r].op = "upsert" THEN "put" ELSE "delete"]
            /\ tx' = [tx EXCEPT ![r] = disk]
            /\ obs' = [obs EXCEPT ![r] = [Observe(call[r].op, call[r].slug)
                                            EXCEPT !.overlap = obs[r].overlap]]
            /\ UNCHANGED <<call, list, ret>>
    /\ UNCHANGED <<disk, db, phase, nops, latest, prior, serial>>

\* db.View's Begin(false)
BeginView(r, op, slug, next) ==
    /\ pc' = [pc EXCEPT ![r] = next]
    /\ call' = [call EXCEPT ![r] = [op |-> op, slug |-> slug, post |-> ZeroPost, buf |-> NilValue]]
    /\ tx' = [tx EXCEPT ![r] = disk]
    /\ obs' = [obs EXCEPT ![r] = Observe(op, slug)]
    /\ ret' = [ret EXCEPT ![r] = NoRet]

\* a write transaction ends without a commit
Rollback(r, out, err) ==
    /\ writer' = 0
    /\ Finish(r, Return(r, out, err))
    /\ obs' = [obs EXCEPT ![r] = NoObs]
    /\ UNCHANGED <<disk, db, phase, nops, latest, prior, serial>>

(***************************************************************************)
(* upsertPost.                                                             *)
(***************************************************************************)
upsertPost(r, post, slug) ==
    /\ CanCall(r)
    /\ nops' = nops + 1
    /\ LET m == Marshal(post) IN
       IF m.err # NoError
       THEN /\ Finish(r, ReturnOf("upsert", slug, "error", m.err))
            /\ UNCHANGED obs
       ELSE CallUpdate(r, "upsert", slug, post, m.buf)
    /\ UNCHANGED <<disk, db, phase, writer, latest, prior, serial>>

\* a variant: the record is put in the file itself, outside the transaction
upsertPostPutUnbuffered(r) ==
    /\ pc[r] = "put"
    /\ IF ~HasPostsBucket(tx[r])
       THEN Rollback(r, "panic", ErrNilPointer)
       ELSE LET res == BucketPut(tx[r].kv, call[r].slug, call[r].buf) IN
            IF res.err # NoError
            THEN Rollback(r, "error", ErrInsert)
            ELSE /\ tx' = [tx EXCEPT ![r].kv = res.kv]
                 /\ disk' = [disk EXCEPT !.kv = res.kv]
                 /\ pc' = [pc EXCEPT ![r] = "commit"]
                 /\ UNCHANGED <<db, phase, nops, writer, call, list, ret,
                                obs, latest, prior, serial>>

\* the function upsertPost passes to db.Update
upsertPostPut(r) ==
    /\ pc[r] = "put"
    /\ IF ~HasPostsBucket(tx[r])
       THEN Rollback(r, "panic", ErrNilPointer)
       ELSE LET res == BucketPut(tx[r].kv, call[r].slug, call[r].buf) IN
            IF res.err # NoError
            THEN Rollback(r, "error", ErrInsert)
            ELSE /\ tx' = [tx EXCEPT ![r].kv = res.kv]
                 /\ pc' = [pc EXCEPT ![r] = "commit"]
                 /\ UNCHANGED <<disk, db, phase, nops, writer, call, list, ret,
                                obs, latest, prior, serial>>

(***************************************************************************)
(* deletePost.                                                             *)
(***************************************************************************)
deletePost(r, slug) ==
    /\ CanCall(r)
    /\ nops' = nops + 1
    /\ CallUpdate(r, "delete", slug, ZeroPost, NilValue)
    /\ UNCHANGED <<disk, db, phase, writer, latest, prior, serial>>

\* the function deletePost passes to db.Update
deletePostDelete(r) ==
    /\ pc[r] = "delete"
    /\ IF ~HasPostsBucket(tx[r])
       THEN Rollback(r, "panic", ErrNilPointer)
       ELSE LET res == BucketDelete(tx[r].kv, call[r].slug) IN
            IF res.err # NoError
            THEN Rollback(r, "error", ErrDelete)
            ELSE /\ tx' = [tx EXCEPT ![r].kv = res.kv]
                 /\ pc' = [pc EXCEPT ![r] = "commit"]
                 /\ UNCHANGED <<disk, db, phase, nops, writer, call, list, ret,
                                obs, latest, prior, serial>>

(***************************************************************************)
(* tx.Commit at the end of db.Update.  bolt writes the pages of the         *)
(* transaction, then the meta page that names its root, and syncs the file *)
(* after each; an error of any of these is Commit's.  The outcome is the   *)
(* environment's: "written" (no error, the transaction's root is the       *)
(* file's), "unwritten" (an error before the meta page is in the file,     *)
(* which stays as it was) or "unsynced" (the error of the sync after the   *)
(* meta page was written: the root is the file's and Commit returns the    *)
(* error).                                                                 *)
(***************************************************************************)
CommitOutcomes == {"written", "unwritten", "unsynced"}

\* the file after the commit
AfterCommit(r, outcome) == IF outcome = "unwritten" THEN disk ELSE tx[r]

commit(r, outcome) ==
    /\ pc[r] = "commit"
    /\ writer' = 0
    /\ LET s == call[r].slug
           up == call[r].op = "upsert"
       IN IF outcome # "unwritten"
          THEN /\ disk' = AfterCommit(r, outcome)
               /\ latest' = [latest EXCEPT ![s] = IF up THEN Some(call[r].post) ELSE None]
               /\ prior' = [prior EXCEPT ![s] = IF up THEN latest[s] ELSE None]
               /\ serial' = [serial EXCEPT ![s] = IF up THEN call[r].buf ELSE NilValue]
               /\ Finish(r, IF outcome = "written" THEN Return(r, "ok", NoError)
                                                   ELSE Return(r, "error", ErrCommit))
               /\ obs' = [q \in Goroutines |->
                            IF q = r THEN NoObs
                            ELSE IF pc[q] # "idle" THEN [obs[q] EXCEPT !.overlap = TRUE]
                            ELSE obs[q]]
          ELSE /\ disk' = AfterCommit(r, outcome)
               /\ Finish(r, Return(r, "error", ErrCommit))
               /\ obs' = [obs EXCEPT ![r] = NoObs]
               /\ UNCHANGED <<latest, prior, serial>>
    /\ UNCHANGED <<db, phase, nops>>

(***************************************************************************)
(* getPost.                                                                *)
(***************************************************************************)
\* a variant: one post variable for the whole loop, so a record is decoded into
\* the post of the record before it
ReusedPost(previous) == previous

\* result := Post{} and post := Post{}: what a record is decoded into
FreshPost(previous) == ZeroPost

getPost(r, slug) ==
    /\ CanCall(r)
    /\ nops' = nops + 1
    /\ IF db = "nil"
       THEN /\ Finish(r, ReturnOf("get", slug, "panic", ErrNilPointer))
            /\ UNCHANGED obs
       ELSE /\ BeginView(r, "get", slug, "get")
            /\ UNCHANGED list
    /\ UNCHANGED <<disk, db, phase, writer, latest, prior, serial>>

\* the function getPost passes to db.View, and getPost's return
getPostView(r) ==
    /\ pc[r] = "get"
    /\ IF ~HasPostsBucket(ReadRoot(r))
       THEN Finish(r, Return(r, "panic", ErrNilPointer))
       ELSE LET v == BucketGet(ReadRoot(r).kv, call[r].slug)
                u == Unmarshal(v, FreshPost(ZeroPost))
            IN IF u.err # NoError
               THEN Finish(r, Return(r, "error", u.err))
               ELSE Finish(r, [Return(r, "ok", NoError) EXCEPT !.got = u.post])
    /\ obs' = [obs EXCEPT ![r] = NoObs]
    /\ UNCHANGED <<disk, db, phase, nops, writer, latest, prior, serial>>

(***************************************************************************)
(* listPosts.                                                              *)
(***************************************************************************)
\* the orders in which a range over a Go map with these keys can yield them
RangeOrders(keys) ==
    { o \in [1..Cardinality(keys) -> keys] :
        \A i, j \in 1..Cardinality(keys) : i # j => o[i] # o[j] }

\* results[string(k)] = post
MapSet(m, k, post) == (k :> post) @@ m

listPosts(r) ==
    /\ CanCall(r)
    /\ nops' = nops + 1
    /\ IF db = "nil"
       THEN /\ Finish(r, ReturnOf("list", <<>>, "panic", ErrNilPointer))
            /\ UNCHANGED obs
       ELSE /\ BeginView(r, "list", <<>>, "list")
            /\ list' = [list EXCEPT ![r] = [cur |-> 1, results |-> <<>>]]
    /\ UNCHANGED <<disk, db, phase, writer, latest, prior, serial>>

\* one turn of the cursor loop (c.First, c.Next), or past the last key the return
\* of the map, which a range then yields in some order
listPostsNext(r) ==
    /\ pc[r] = "list"
    /\ LET kv == ReadRoot(r).kv
           i == list[r].cur
       IN IF ~HasPostsBucket(ReadRoot(r))
          THEN /\ Finish(r, Return(r, "panic", ErrNilPointer))
               /\ obs' = [obs EXCEPT ![r] = NoObs]
          ELSE IF i > Len(kv)
          THEN /\ \E o \in RangeOrders(DOMAIN list[r].results) :
                     Finish(r, [Return(r, "ok", NoError)
                                  EXCEPT !.posts = list[r].results, !.order = o])
               /\ obs' = [obs EXCEPT ![r] = NoObs]
          ELSE LET prev == IF i = 1 THEN ZeroPost ELSE list[r].results[kv[i - 1].key]
                   u == Unmarshal(kv[i].value, FreshPost(prev))
               IN IF u.err # NoError
                  THEN /\ Finish(r, Return(r, "panic", u.err))
                       /\ obs' = [obs EXCEPT ![r] = NoObs]
                  ELSE /\ list' = [list EXCEPT ![r] =
                                     [cur |-> i + 1,
                                      results |-> MapSet(list[r].results, kv[i].key, u.post)]]
                       /\ UNCHANGED <<pc, call, tx, ret, obs>>
    /\ UNCHANGED <<disk, db, phase, nops, writer, latest, prior, serial>>

(***************************************************************************)
(* The program.                                                            *)
(***************************************************************************)
\* the upserts the callers make: every post under "ab", two of them under "b"
\* as well, one under the empty slug
UpsertInputs ==
    [post : PostInputs, slug : {SlugAB}]
        \cup [post : {PostFull, PostTitleOnly}, slug : {SlugB}]
        \cup [post : {PostFull}, slug : {SlugEmpty}]

Faults == {"none", "open", "commit", "sync"}

Next ==
    \/ \E fault \in Faults : setupDB(fault) /\ UNCHANGED http
    \/ processExit /\ UNCHANGED http
    \/ \E r \in Goroutines, in \in UpsertInputs : upsertPost(r, in.post, in.slug) /\ UNCHANGED http
    \/ \E r \in Goroutines : beginUpdate(r) /\ UNCHANGED http
    \/ \E r \in Goroutines : upsertPostPut(r) /\ UNCHANGED http
    \/ \E r \in Goroutines, slug \in Slugs : deletePost(r, slug) /\ UNCHANGED http
    \/ \E r \in Goroutines : deletePostDelete(r) /\ UNCHANGED http
    \/ \E r \in Goroutines, outcome \in CommitOutcomes : commit(r, outcome) /\ UNCHANGED http
    \/ \E r \in Goroutines, slug \in Slugs : getPost(r, slug) /\ UNCHANGED http
    \/ \E r \in Goroutines : getPostView(r) /\ UNCHANGED http
    \/ \E r \in Goroutines : listPosts(r) /\ UNCHANGED http
    \/ \E r \in Goroutines : listPostsNext(r) /\ UNCHANGED http

Spec == Init /\ [][Next]_vars
SpecForeign == InitForeign /\ [][Next]_vars

(***************************************************************************)
(* The content of a page.  A body is one line of text; a script element    *)
(* in it is one unit (ScriptElement), and so is each tag of the output.    *)
(***************************************************************************)
TagH1 == 1000002
TagH1End == 1000003
TagP == 1000004
TagPEnd == 1000005
EscapedScript == 1000006

\* markdown.ToHTML(body, nil, nil) on a line that begins with text: "# " makes
\* a heading, any other line a paragraph; HTML inside the line is kept as it is
ToHTML(body) ==
    IF body = <<>> THEN <<>>
    ELSE IF Len(body) > 2 /\ body[1] = 35 /\ body[2] = 32
    THEN <<TagH1>> \o SubSeq(body, 3, Len(body)) \o <<TagH1End, 10>>
    ELSE <<TagP>> \o body \o <<TagPEnd, 10>>

\* bluemonday.UGCPolicy().SanitizeBytes: a script element goes, with what is
\* in it; h1, p and text stay
SanitizeBytes(html) == SelectSeq(html, LAMBDA u : u # ScriptElement)

\* a variant: the expansion as it is
Unsanitized(body) == ToHTML(body)

\* getPostHandler's postHTML
PostHTML(body) == SanitizeBytes(ToHTML(body))

\* html/template on a string of the data, as on {{.Post.Body}} inside the
\* textarea of edit-post.html: the markup in it is escaped
EscapeText(text) ==
    [i \in 1..Len(text) |-> IF text[i] = ScriptElement THEN EscapedScript ELSE text[i]]

RECURSIVE EscapeAll(_)
EscapeAll(texts) ==
    IF texts = <<>> THEN <<>> ELSE EscapeText(Head(texts)) \o EscapeAll(Tail(texts))

\* t.Execute on the page's data.  Of what a handler hands it, a template can
\* print a template.HTML as it is, and a string only escaped; the page here is
\* all a template could print of the bodies handed to it: html, the trusted
\* markup, and text, the bodies as strings
Execute(trusted, bodies) == [html |-> trusted, text |-> EscapeAll(bodies)]

\* the keys of a map in ascending order, as a template ranges over it
RECURSIVE SortedKeys(_)
SortedKeys(keys) ==
    IF keys = {} THEN <<>>
    ELSE LET least == CHOOSE k \in keys : \A j \in keys : KeyCompare(k, j) <= 0
         IN <<least>> \o SortedKeys(keys \ {least})

\* the bodies of HomePageData.Posts
Bodies(posts) ==
    LET keys == SortedKeys(DOMAIN posts)
    IN [i \in 1..Len(keys) |-> posts[keys[i]].Body]

(***************************************************************************)
(* The handlers.  A handler acts when its request comes in, up to the call *)
(* of the store; the steps of the call are those above; once the call has  *)
(* returned, the handler writes the rest of the response in a step of its  *)
(* own.                                                                    *)
(***************************************************************************)
Request(handler, slug, body, at, key, status) ==
    [handler |-> handler, slug |-> slug, body |-> body, at |-> at, key |-> key,
     status |-> status, done |-> "pending", page |-> NoPage]

\* res.WriteHeader: the first status written is the response's
WriteHeader(h, status) == IF h.status = 0 THEN [h EXCEPT !.status = status] ELSE h

\* what the handler writes once the store call returned rt; on a panic, of the
\* store call or of deletePostHandler on deletePost's error, net/http drops the
\* connection
Respond(h, rt) ==
    IF rt.out = "panic" THEN [h EXCEPT !.done = "aborted"]
    ELSE IF h.handler \in {"create", "modify"}
    THEN [WriteHeader(h, IF rt.out = "error" THEN 500 ELSE 201) EXCEPT !.done = "answered"]
    ELSE IF h.handler = "deletePost"
    THEN IF rt.out = "error" THEN [h EXCEPT !.done = "aborted"]
         ELSE [WriteHeader(h, 200) EXCEPT !.done = "answered"]
    ELSE IF h.handler = "home"
    THEN IF rt.out = "error"
         THEN [WriteHeader(h, 500) EXCEPT !.done = "answered"]
         ELSE [WriteHeader(h, 200) EXCEPT
                  !.done = "answered",
                  !.page = Execute(<<>>, Bodies(rt.posts))]
    ELSE IF rt.out = "error"
    THEN [WriteHeader(h, 404) EXCEPT !.done = "answered"]
    ELSE IF h.handler = "getPost"
    THEN [WriteHeader(h, 200) EXCEPT
             !.done = "answered",
             !.page = Execute(PostHTML(rt.got.Body), <<rt.got.Body>>)]
    ELSE [WriteHeader(h, 200) EXCEPT
             !.done = "answered",
             !.page = Execute(<<>>, <<rt.got.Body>>)]

\* goroutine r can take a request: net/http starts a goroutine for it
CanServe(r) ==
    /\ CanCall(r)
    /\ nops < MaxRequests

\* goroutine r's handler takes request h in this step and calls the store
Serves(r, h) == http' = [http EXCEPT ![r] = h]

\* the store call of goroutine r's handler has returned, and the handler writes
\* the response and returns; until then other requests are served, and the
\* process may exit
handlerReturns(r) ==
    /\ phase \in {"serving", "stopping"}
    /\ pc[r] = "idle"
    /\ http[r].done = "pending"
    /\ http' = [http EXCEPT ![r] = Respond(http[r], ret[r])]
    /\ UNCHANGED <<disk, db, phase, nops, writer, pc, call, tx, list, ret, obs,
                   latest, prior, serial>>

\* a variant: the caller's datePosted is kept when the body has one
CallerDate(decoded, t) == IF decoded = ZeroTime THEN t ELSE decoded

\* post.DatePosted = time.Now()
Stamp(decoded, t) == t

\* time.Now(): the wall clock shows reading i, whatever it showed before
Now(i) == i \in 1..Len(ClockReadings)

\* the status after json.Unmarshal: 422 is written on an error, and the handler
\* goes on
UnmarshalStatus(err) == IF err # NoError THEN 422 ELSE 0

createPostHandler(r, body, i) ==
    /\ CanServe(r)
    /\ Now(i)
    /\ \E u \in {Unmarshal(body, ZeroPost)} :
       \E t \in {Stamp(u.post.DatePosted, ClockReadings[i])} :
       \E autoSlug \in {AutoSlug(t, u.post.Title)} :
       \E post \in {[u.post EXCEPT !.DatePosted = t, !.Slug = autoSlug]} :
          /\ upsertPost(r, post, autoSlug)
          /\ Serves(r, Request("create", <<>>, body, ClockReadings[i], autoSlug,
                               UnmarshalStatus(u.err)))

modifyPostHandler(r, slug, body, i) ==
    /\ CanServe(r)
    /\ Now(i)
    /\ \E u \in {Unmarshal(body, ZeroPost)} :
       \E t \in {Stamp(u.post.DatePosted, ClockReadings[i])} :
       \E post \in {[u.post EXCEPT !.Slug = slug, !.DatePosted = t]} :
          /\ upsertPost(r, post, slug)
          /\ Serves(r, Request("modify", slug, body, ClockReadings[i], slug,
                               UnmarshalStatus(u.err)))

getPostHandler(r, slug) ==
    /\ CanServe(r)
    /\ getPost(r, slug)
    /\ Serves(r, Request("getPost", slug, NilValue, ZeroTime, slug, 0))

deletePostHandler(r, slug) ==
    /\ CanServe(r)
    /\ deletePost(r, slug)
    /\ Serves(r, Request("deletePost", slug, NilValue, ZeroTime, slug, 0))

homeHandler(r) ==
    /\ CanServe(r)
    /\ listPosts(r)
    /\ Serves(r, Request("home", <<>>, NilValue, ZeroTime, <<>>, 0))

editPostPageHandler(r, slug) ==
    /\ CanServe(r)
    /\ getPost(r, slug)
    /\ Serves(r, Request("editPostPage", slug, NilValue, ZeroTime, slug, 0))

\* main: the interrupt arrives and srv.Shutdown stops taking requests; the
\* requests in flight go on
interrupt ==
    /\ phase = "serving"
    /\ phase' = "stopping"
    /\ UNCHANGED <<disk, db, nops, writer, pc, call, tx, list, ret, obs,
                   latest, prior, serial, http>>

\* main: os.Exit(0) once Shutdown returned, when the requests are over or its
\* 15 s have passed.  The deferred db.Close() does not run: os.Exit runs no
\* deferred call, so the handle is as it was
osExit ==
    /\ phase = "stopping"
    /\ phase' = "exited"
    /\ writer' = 0
    /\ pc' = [r \in Goroutines |-> "idle"]
    /\ call' = [r \in Goroutines |-> NoCall]
    /\ tx' = [r \in Goroutines |-> NoFile]
    /\ list' = [r \in Goroutines |-> NoList]
    /\ obs' = [r \in Goroutines |-> NoObs]
    /\ http' = [r \in Goroutines |->
                  IF http[r].done = "pending" THEN [http[r] EXCEPT !.done = "aborted"]
                  ELSE http[r]]
    /\ UNCHANGED <<disk, db, nops, ret, latest, prior, serial>>

NextHTTP ==
    \/ \E fault \in Faults : setupDB(fault) /\ UNCHANGED http
    \/ \E r \in Goroutines, c \in CreateRequests :
          createPostHandler(r, c.body, c.reading)
    \/ \E r \in Goroutines, m \in ModifyRequests :
          modifyPostHandler(r, m.slug, m.body, m.reading)
    \/ \E r \in Goroutines, slug \in PathSlugs : getPostHandler(r, slug)
    \/ \E r \in Goroutines : editPostPageHandler(r, SlugB)
    \/ \E r \in Goroutines : deletePostHandler(r, SlugB)
    \/ \E r \in Goroutines : homeHandler(r)
    \/ \E r \in Goroutines : beginUpdate(r) /\ UNCHANGED http
    \/ \E r \in Goroutines : upsertPostPut(r) /\ UNCHANGED http
    \/ \E r \in Goroutines : deletePostDelete(r) /\ UNCHANGED http
    \/ \E r \in Goroutines, outcome \in CommitOutcomes : commit(r, outcome) /\ UNCHANGED http
    \/ \E r \in Goroutines : getPostView(r) /\ UNCHANGED http
    \/ \E r \in Goroutines : listPostsNext(r) /\ UNCHANGED http
    \/ \E r \in Goroutines : handlerReturns(r)

InitHTTP == InitWith(HandlerFiles, Keys)
SpecHTTP == InitHTTP /\ [][NextHTTP]_vars

\* main from its start to its exit, with requests for a post's page
NextMain ==
    \/ \E fault \in Faults : setupDB(fault) /\ UNCHANGED http
    \/ interrupt
    \/ osExit
    \/ \E r \in Goroutines, slug \in PathSlugs : getPostHandler(r, slug)
    \/ \E r \in Goroutines : getPostView(r) /\ UNCHANGED http
    \/ \E r \in Goroutines : handlerReturns(r)

InitMain == InitWith(HandlerFiles \cup {NoFile}, Keys)
SpecMain == InitMain /\ [][NextMain]_vars

(***************************************************************************)
(* Properties.                                                             *)
(***************************************************************************)
\* a post as json writes it: every invalid byte of its strings is U+FFFD
CoercePost(p) ==
    Post(CoerceUTF8(p.Author), CoerceUTF8(p.Body), p.DatePosted,
         CoerceUTF8(p.Title), CoerceUTF8(p.Slug))

\* the pairs a bucket holds under a key
Count(kv, k) == Len(OnlyKey(kv, k))

Returned(r, op) == ret[r].op = op /\ ret[r].out # "panic"

\* a getPost that began when the last write to its slug in the file was an upsert
GotWritten(r) == Returned(r, "get") /\ ret[r].obs.want # None

\* C1 as stated: a getPost(s) that begins after a successful upsertPost(p, s), no
\* other write to s in between, returns no error and a post equal to p in every
\* field.
C1_RoundTripAnyPost ==
    \A r \in Goroutines :
        GotWritten(r) =>
            /\ ret[r].out = "ok"
            /\ PostEqual(ret[r].got, ret[r].obs.want[1])

\* C1 amended: the getPost returns no error and p with every invalid byte of its
\* strings replaced by U+FFFD; so a p whose strings are valid UTF-8 comes back equal
\* in every field (the timestamp as the same instant).
C1_RoundTrip ==
    \A r \in Goroutines :
        GotWritten(r) =>
            /\ ret[r].out = "ok"
            /\ PostEqual(ret[r].got, CoercePost(ret[r].obs.want[1]))
            /\ PostValidUTF8(ret[r].obs.want[1])
                   => PostEqual(ret[r].got, ret[r].obs.want[1])

\* a post with a monotonic reading and a fraction of a second came back
C1_Witness ==
    \E r \in Goroutines :
        /\ GotWritten(r)
        /\ ret[r].obs.want = Some(PostFull)
        /\ ret[r].slug = SlugAB
        /\ ret[r].got.DatePosted.nsec = 1

\* a getPost that began when the last write to its slug in the file was an upsert
\* over an upserted post
GotOverwritten(r) == GotWritten(r) /\ ret[r].obs.prior # None

OneRecordPerSlug ==
    \A s \in Slugs :
        /\ Count(disk.kv, s) <= 1
        /\ latest[s] # None => Count(disk.kv, s) = 1

\* C2 as stated: after upsertPost(p1, s) and upsertPost(p2, s), getPost(s) returns
\* exactly p2, the store holds one record under s, and no slug ever has two.
C2_OverwriteAnyPost ==
    /\ \A r \in Goroutines :
         GotOverwritten(r) =>
            /\ ret[r].out = "ok"
            /\ PostEqual(ret[r].got, ret[r].obs.want[1])
    /\ OneRecordPerSlug

\* C2 amended: getPost(s) returns p2 as json writes it (invalid bytes as U+FFFD,
\* so exactly p2 when its strings are valid UTF-8), no field of p1 in it, also
\* where p2's field is empty; one record under s, never two under a slug.
C2_Overwrite ==
    /\ \A r \in Goroutines :
         GotOverwritten(r) =>
            /\ ret[r].out = "ok"
            /\ PostEqual(ret[r].got, CoercePost(ret[r].obs.want[1]))
            /\ PostValidUTF8(ret[r].obs.want[1])
                   => PostEqual(ret[r].got, ret[r].obs.want[1])
    /\ OneRecordPerSlug

\* a post with an author was overwritten by one without, and read back
C2_Witness ==
    \E r \in Goroutines :
        /\ GotOverwritten(r)
        /\ ret[r].obs.prior = Some(PostFull)
        /\ ret[r].obs.want = Some(PostTitleOnly)
        /\ ret[r].got.Author = <<>>
        /\ Count(disk.kv, ret[r].slug) = 1

\* C3: deletePost returns no error whether or not the slug is stored (the engine
\* writing what it is asked to); a getPost that begins while the slug has no
\* record reports not-found, which the getPost of the same slug that began while
\* the record was there did not report; and a listPosts that begins then has no
\* entry for the slug.
C3_DeleteThenNotFound ==
    /\ \A r \in Goroutines :
         Returned(r, "delete") /\ ret[r].err # ErrCommit => ret[r].err = NoError
    /\ \A r, q \in Goroutines :
         Returned(r, "get") /\ ret[r].obs.began = <<>> =>
            /\ ret[r].out = "error"
            /\ Returned(q, "get") /\ ret[q].slug = ret[r].slug /\ ret[q].obs.began # <<>>
                   => ret[q].out = "ok" \/ ret[q].err # ret[r].err
    /\ \A r \in Goroutines :
         Returned(r, "list") =>
            \A s \in Slugs : ret[r].obs.all[s] = None => s \notin DOMAIN ret[r].posts

\* C4: getPost of a slug with no record and getPost of a slug whose record does
\* not parse both fail, with outcomes the caller can tell apart.
C4_NotFoundDistinct ==
    \A r, q \in Goroutines :
        /\ Returned(r, "get") /\ ret[r].obs.began = <<>>
        /\ Returned(q, "get") /\ ret[q].obs.began # <<>> /\ ret[q].out = "error"
        => ret[r].out = "error" /\ ret[r].err # ret[q].err

\* what getPost makes of the record a bucket holds under a slug
GetOn(kv, s) == Unmarshal(BucketGet(kv, s), ZeroPost)

\* the slugs whose last committed write, when the listPosts began, was an upsert
Written(r) == {s \in Slugs : ret[r].obs.all[s] # None}

\* a listPosts and a getPost that began on the same committed record of the
\* getPost's slug agree: the entry is there exactly when the getPost succeeds, and
\* holds the post it returns
ListAgreesWithGet(r, q) ==
    Returned(r, "list") /\ Returned(q, "get")
    /\ ret[q].obs.began = OnlyKey(ret[r].obs.began, ret[q].slug)
    => /\ ret[q].slug \in DOMAIN ret[r].posts <=> ret[q].out = "ok"
       /\ ret[q].out = "ok" => ret[r].posts[ret[q].slug] = ret[q].got

\* C5 as stated: listPosts returns one entry per slug upserted and not deleted
\* since, with the post of the latest upsert, and nothing else; an entry is there
\* exactly when getPost of the slug succeeds with the same post.
C5_ListingAnyPost ==
    \A r \in Goroutines :
        Returned(r, "list") =>
            /\ DOMAIN ret[r].posts = Written(r)
            /\ \A s \in Written(r) : PostEqual(ret[r].posts[s], ret[r].obs.all[s][1])
            /\ \A q \in Goroutines : ListAgreesWithGet(r, q)

\* C5 amended: each entry holds the post of the latest upsert as json writes it
\* (invalid bytes as U+FFFD, so that post itself when its strings are valid UTF-8).
C5_Listing ==
    \A r \in Goroutines :
        Returned(r, "list") =>
            /\ DOMAIN ret[r].posts = Written(r)
            /\ \A s \in Written(r) :
                  /\ PostEqual(ret[r].posts[s], CoercePost(ret[r].obs.all[s][1]))
                  /\ PostValidUTF8(ret[r].obs.all[s][1])
                        => PostEqual(ret[r].posts[s], ret[r].obs.all[s][1])
            /\ \A q \in Goroutines : ListAgreesWithGet(r, q)

\* a listing of two slugs, one of them upserted in this run, and a getPost of
\* that slug that returned the same post
C5_Witness ==
    \E r, q \in Goroutines :
        /\ Returned(r, "list")
        /\ DOMAIN ret[r].posts = {SlugAB, SlugB}
        /\ ret[r].obs.all[SlugAB] = Some(PostTitleOnly)
        /\ Returned(q, "get") /\ ret[q].slug = SlugAB /\ ret[q].out = "ok"
        /\ ret[q].got = ret[r].posts[SlugAB]

\* C6: the collection listPosts returns presents its entries in ascending byte
\* order of the slug.
C6_RangeAscending ==
    \A r \in Goroutines :
        Returned(r, "list") =>
            \A i, j \in 1..Len(ret[r].order) :
                i < j => KeyCompare(ret[r].order[i], ret[r].order[j]) < 0

\* what listPosts makes of a bucket: an entry per key, the record decoded
ListingOf(kv) ==
    [s \in {t \in Slugs : HasKey(kv, t)} |-> GetOn(kv, s).post]

\* C7: listPosts returns the store as committed when its transaction began,
\* whatever is committed while it runs: a record upserted since is not in it, one
\* deleted since still is, and every write committed before it began is.
C7_SnapshotListing ==
    \A r \in Goroutines :
        Returned(r, "list") => ret[r].posts = ListingOf(ret[r].obs.began)

\* a listing of a stored record returned after a write was committed under it
C7_Witness ==
    \E r \in Goroutines :
        /\ Returned(r, "list")
        /\ ret[r].obs.overlap
        /\ ret[r].obs.began # disk.kv
        /\ ret[r].posts # <<>>
        /\ ret[r].posts = ListingOf(ret[r].obs.began)

\* getPost returns what the one record committed under its slug when it began
\* decodes to, or that key's error
GetIsOfCommitted(r) ==
    LET g == GetOn(ret[r].obs.began, ret[r].slug) IN
    /\ ret[r].out = "ok" <=> g.err = NoError
    /\ ret[r].err = g.err
    /\ ret[r].out = "ok" => ret[r].got = g.post

\* a getPost that began on an upserted record and was not over when another
\* call's write reached the file
ConcurrentGet(r) == GotWritten(r) /\ ret[r].obs.overlap

\* a step in which a call is made and an upsertPost returns at once (json.Marshal
\* failed) leaves the file as it was
MarshalFailureKeepsFile(r) ==
    pc[r] = "idle" /\ nops' # nops /\ ret'[r].op = "upsert" /\ ret'[r].out = "error"
    => disk' = disk

\* a step in which the write transaction of an upsertPost ends in an error
FailsInUpdate(r) ==
    call[r].op = "upsert" /\ ret'[r].op = "upsert" /\ ret'[r].out = "error"

\* C8 as stated: a getPost(s) concurrent with an upsertPost(p2, s) over p1 returns
\* exactly p1 (it began before the commit) or exactly p2 (after), never a mix of
\* fields or not-found; and an upsertPost that fails leaves the record as it was.
C8_AtomicWritesExact ==
    /\ [](\A r \in Goroutines :
             ConcurrentGet(r) =>
                 ret[r].out = "ok" /\ PostEqual(ret[r].got, ret[r].obs.want[1]))
    /\ [][\A r \in Goroutines :
             /\ MarshalFailureKeepsFile(r)
             /\ FailsInUpdate(r) =>
                    /\ disk' = disk
                    /\ OnlyKey(disk'.kv, call[r].slug) = obs[r].began]_vars

\* C8 amended: the getPost returns one record whole, the one in the file when it
\* began, as json writes it: p1 or p2 with the invalid bytes of its strings as
\* U+FFFD, never a mix or not-found.  An upsertPost that fails in json.Marshal or
\* in Put leaves the file as it was; one whose commit fails leaves under its slug
\* the record as it was or its own record whole, and every other record as it was.
C8_AtomicWrites ==
    /\ [](\A r \in Goroutines :
             /\ Returned(r, "get") => GetIsOfCommitted(r)
             /\ ConcurrentGet(r) =>
                    /\ ret[r].out = "ok"
                    /\ PostEqual(ret[r].got, CoercePost(ret[r].obs.want[1])))
    /\ [][\A r \in Goroutines :
             /\ MarshalFailureKeepsFile(r)
             /\ FailsInUpdate(r) /\ pc[r] # "commit" => disk' = disk
             /\ FailsInUpdate(r) /\ pc[r] = "commit" =>
                    /\ OnlyKey(disk'.kv, call[r].slug)
                           \in {obs[r].began, <<Pair(call[r].slug, call[r].buf)>>}
                    /\ \A s \in Slugs \ {call[r].slug} :
                           OnlyKey(disk'.kv, s) = OnlyKey(disk.kv, s)
                    /\ HasPostsBucket(disk') = HasPostsBucket(disk)]_vars

\* a getPost returned the record it began on whole, while an upsertPost over that
\* record failed in its commit and left its own record in the file
C8_Witness ==
    \E r, q \in Goroutines :
        /\ ConcurrentGet(r) /\ ret[r].out = "ok"
        /\ ret[r].obs.began # <<>>
        /\ ret[q].op = "upsert" /\ ret[q].err = ErrCommit /\ ret[q].slug = ret[r].slug
        /\ OnlyKey(disk.kv, ret[r].slug) # <<>>
        /\ OnlyKey(disk.kv, ret[r].slug) # ret[r].obs.began

\* the goroutines inside a write transaction
Writers == {r \in Goroutines : pc[r] \in {"put", "delete", "commit"}}

\* C9: at most one write transaction at a time, and the file holds what the
\* committed writes give when applied one after another in commit order.
C9_SerialWriters ==
    /\ Cardinality(Writers) <= 1
    /\ \A r \in Writers : writer = r
    /\ ValueOf(disk.kv) = serial
    /\ Len(disk.kv) = Cardinality({s \in Slugs : serial[s] # NilValue})

\* two upserts to different slugs, the second called before the first had
\* committed, and both records are in the file
C9_Witness ==
    \E r, q \in Goroutines :
        /\ ret[r].op = "upsert" /\ ret[r].out = "ok"
        /\ ret[q].op = "upsert" /\ ret[q].out = "ok" /\ ret[q].obs.overlap
        /\ ret[r].slug # ret[q].slug
        /\ HasKey(disk.kv, ret[r].slug) /\ HasKey(disk.kv, ret[q].slug)

\* a step of setupDB
SetupStep == phase = "start" /\ phase' = "serving"

\* C10: setupDB keeps every stored record; when it succeeds BLOG and POSTS are
\* there; on a file that has them it changes nothing; and after it succeeded no
\* call finds a bucket missing.
C10_SetupIdempotent ==
    /\ [](db = "open" =>
            /\ HasPostsBucket(disk)
            /\ \A r \in Goroutines :
                  /\ ret[r].err # ErrNilPointer
                  /\ pc[r] \notin {"idle", "begin"} => HasPostsBucket(tx[r]))
    /\ [][SetupStep =>
            /\ disk'.kv = disk.kv
            /\ db' = "open" => HasPostsBucket(disk')
            /\ HasPostsBucket(disk) => disk' = disk]_vars

\* setupDB has succeeded again, after calls of an earlier run, on stored posts
C10_Witness ==
    /\ db = "open"
    /\ nops > 0
    /\ \A r \in Goroutines : pc[r] = "idle" /\ ret[r] = NoRet
    /\ Len(disk.kv) > 0

(***************************************************************************)
(* Claims on errors, handlers and the life of the process.                 *)
(***************************************************************************)
\* a stored value json.Unmarshal rejects
Undecodable(v) == Unmarshal(v, ZeroPost).err # NoError

\* C11 (as claimed): a listPosts that meets a stored value it cannot decode
\* returns an error to its caller, and no listing.
C11_ListDecodeErrorReturned ==
    \A r \in Goroutines :
        /\ ret[r].op = "list"
        /\ \E i \in 1..Len(ret[r].obs.began) : Undecodable(ret[r].obs.began[i].value)
        => ret[r].out = "error" /\ ret[r].posts = <<>>

\* C14 (as claimed): when setupDB returned an error main does not go on to
\* build the router and serve with the handle it got.
C14_StartupFailureFatal == db = "nil" => phase # "serving"

\* goroutine r's write transaction on slug s commits in this step
WriteCommits(r, s) ==
    /\ pc[r] = "commit" /\ pc'[r] = "idle"
    /\ call[r].op \in {"upsert", "delete"}
    /\ call[r].slug = s

\* goroutine r takes a step of getPost or listPosts
ReadSteps(r) ==
    /\ pc'[r] # pc[r] \/ list'[r] # list[r]
    /\ pc[r] \in {"get", "list"} \/ pc'[r] \in {"get", "list"}

\* C19: a step changes the value stored under a slug only as the commit of an
\* upsertPost or deletePost called with that slug, so every other slug keeps
\* its value; a step of getPost or listPosts changes nothing in the file.
C19_Frame ==
    [][/\ disk'.kv # disk.kv
              => /\ \E r \in Goroutines, s \in Slugs : WriteCommits(r, s)
                 /\ \A s \in Slugs :
                       BucketGet(disk'.kv, s) # BucketGet(disk.kv, s)
                       => \E r \in Goroutines : WriteCommits(r, s)
       /\ (\E r \in Goroutines : ReadSteps(r)) => disk' = disk]_vars

\* an upsert under "ab" and a delete of another slug have committed, and the
\* record the file began with under "b" is as it was
C19_Witness ==
    /\ BucketGet(disk.kv, SlugB) = Marshal(PostFull).buf
    /\ HasKey(disk.kv, SlugAB)
    /\ \E r, q \in Goroutines :
          /\ ret[r].op = "upsert" /\ ret[r].out = "ok" /\ ret[r].slug = SlugAB
          /\ ret[q].op = "delete" /\ ret[q].out = "ok" /\ ret[q].slug = SlugEmpty

\* the Slug field of a stored record
StoredSlug(e) == Unmarshal(e.value, ZeroPost).post.Slug

\* goroutine r handles a create or modify request
Writes(r) == http[r].handler \in {"create", "modify"}

\* the write of goroutine r's handler commits in this step
HandlerCommits(r) ==
    /\ Writes(r)
    /\ pc[r] = "commit" /\ pc'[r] = "idle"
    /\ ret'[r].out = "ok"

\* C12 (as claimed): every record the handlers have written holds in its Slug
\* field the key it is stored under.
C12_SlugFieldIsKey ==
    \A i \in 1..Len(disk.kv) : StoredSlug(disk.kv[i]) = disk.kv[i].key

\* the title goroutine r's request carries, as the handler decodes it
TitleOf(r) == Unmarshal(http[r].body, ZeroPost).post.Title

\* two create requests with the same title
SameTitleCreates(r, q) ==
    /\ r # q
    /\ http[r].handler = "create" /\ http[q].handler = "create"
    /\ TitleOf(r) = TitleOf(q)

\* two instants in the same second of the clock
SameSecond(t, u) ==
    t.year = u.year /\ t.nsec \div NanosPerSecond = u.nsec \div NanosPerSecond

\* C13 (as claimed): two create requests with the same title get the same slug
\* when their timestamps are the same, and two different slugs when their
\* timestamps differ.
C13_SlugPerTimestamp ==
    \A r, q \in Goroutines :
        SameTitleCreates(r, q)
        => (http[r].key = http[q].key <=> TimeEqual(http[r].at, http[q].at))

\* C13: the slug of a create request depends on its title and on the second of
\* its timestamp alone: two requests with the same title get the same slug when
\* their timestamps are in the same second, whatever else their bodies hold,
\* and two different slugs when the timestamps are in different seconds.
C13_SlugPerSecond ==
    \A r, q \in Goroutines :
        SameTitleCreates(r, q)
        => (http[r].key = http[q].key <=> SameSecond(http[r].at, http[q].at))

\* two create requests with the title "A b" and otherwise different bodies, at
\* two instants of one second, have the slug "2020-01-01t00-00-00z-a-b"
C13_Witness ==
    \E r, q \in Goroutines :
        /\ SameTitleCreates(r, q)
        /\ http[r].body = RequestFull /\ http[q].body = RequestTitle
        /\ ~TimeEqual(http[r].at, http[q].at)
        /\ SameSecond(http[r].at, http[q].at)
        /\ http[r].key = <<50, 48, 50, 48, 45, 48, 49, 45, 48, 49, 116, 48, 48, 45,
                           48, 48, 45, 48, 48, 122, 45, 97, 45, 98>>
        /\ http[q].key = http[r].key

\* the body of the record goroutine r's getPost found stored when it began
StoredBody(r) == Unmarshal(ret[r].obs.began[1].value, ZeroPost).post.Body

\* the units of a text
Units(s) == {s[i] : i \in 1..Len(s)}

\* goroutine r's handler has answered 200 with a page
Served(r, handler) ==
    /\ http[r].handler = handler
    /\ http[r].done = "answered"
    /\ http[r].status = 200

\* C16: whatever page a handler has answered with, the only markup in it that is
\* made from a post body and trusted as HTML is getPostHandler's, and that is the
\* sanitizer's output on the markdown expansion of the body as stored when the
\* handler read it; every other handler hands its template the bodies as strings
\* only, which come out escaped; so no page holds a script element of a body.
C16_SanitizedPages ==
    \A r \in Goroutines :
        http[r].done = "answered" /\ http[r].status = 200 =>
            /\ ScriptElement \notin Units(http[r].page.html) \cup Units(http[r].page.text)
            /\ http[r].handler = "getPost"
                   => http[r].page.html = SanitizeBytes(ToHTML(StoredBody(r)))
            /\ http[r].handler # "getPost" => http[r].page.html = <<>>

\* the page of a post whose stored body is "a <script>alert(1)</script>" was
\* served, its HTML "<p>a </p>" and a newline, and so was the home page that
\* lists the post, with the element escaped
C16_Witness ==
    \E r, q \in Goroutines :
        /\ Served(r, "getPost")
        /\ ScriptElement \in Units(StoredBody(r))
        /\ http[r].page.html = <<TagP, 97, 32, TagPEnd, 10>>
        /\ http[r].page.text = <<97, 32, EscapedScript>>
        /\ Served(q, "home")
        /\ http[q].page = [html |-> <<>>, text |-> <<97, 32, EscapedScript>>]

\* the datePosted of the record stored under goroutine r's key after this step
DatePostedAfter(r) ==
    Unmarshal(BucketGet(disk'.kv, http[r].key), ZeroPost).post.DatePosted

\* the datePosted goroutine r's request carries itself
CallerDateOf(r) == Unmarshal(http[r].body, ZeroPost).post.DatePosted

\* C17: a create or modify request that reaches the store hands upsertPost the
\* reading of the server's clock at its handling as DatePosted, and when its
\* write commits the stored datePosted is that instant, whatever datePosted the
\* body carried; create and modify do the same.
C17_ServerStamps ==
    /\ [](\A r \in Goroutines :
            Writes(r) /\ call[r].op = "upsert"
            => call[r].post.DatePosted = http[r].at)
    /\ [][\A r \in Goroutines :
            HandlerCommits(r)
            => \E stored \in {DatePostedAfter(r)} : TimeEqual(stored, http[r].at)]_vars

\* a create and a modify request whose bodies carry a datePosted of 1999 were
\* answered 201 after their writes committed
C17_Witness ==
    \E r, q \in Goroutines :
        /\ http[r].handler = "create" /\ http[q].handler = "modify"
        /\ http[r].body = RequestFull /\ http[q].body = RequestFull
        /\ CallerDateOf(r).year = 1999
        /\ http[r].done = "answered" /\ http[q].done = "answered"
        /\ ret[r].out = "ok" /\ ret[q].out = "ok"
        /\ HasKey(disk.kv, http[r].key) /\ HasKey(disk.kv, http[q].key)
        /\ http[r].at.year = 2020 /\ http[q].at.year = 2020

\* C18 (as claimed): a create or modify request whose body does not parse is
\* answered 422 and writes nothing.
C18_RejectedWritesNothing ==
    \A r \in Goroutines :
        Writes(r) /\ http[r].status = 422
        => ~(ret[r].op = "upsert" /\ ret[r].out = "ok")

\* C15 (as claimed): when the process has exited on the interrupt after setupDB
\* succeeded, db.Close has run on the handle.
C15_ClosedAtExit == phase = "exited" /\ db # "nil" => db = "closed"

====
